---- MODULE Spec2Model ----
\* passepartout: template loading (ppdefaults.Loader), the fragment cache
\* (ppdefaults.CachedLoader) and the filesystem conventions they rely on.
\*
\* Strings of the program are sequences of one-character strings, so that
\* concatenation, suffix stripping and path walking are computed and not assumed.
\* Template sources are sequences of tokens (a directive or a run of text).
\* Record constructors list their fields in the order in which the field
\* names first occur in this module.
EXTENDS Integers, Sequences, FiniteSets, TLC

\* ---------------------------------------------------------------- bounds
\* total number of Loader calls begun in one behaviour
MaxCalls == 3
\* longest list of fragments handed to CreateTemplate directly
MaxFiles == 2

\* the concurrent callers sharing one Loader and one CachedLoader
Callers == {"c1", "c2"}

\* ---------------------------------------------------------------- names and sources
\* "a.t": a page whose partial folder is "a"
PageA == <<"a", ".", "t">>
\* "a.t|a.t": a valid file name that contains the cache's separator
PagePipe == PageA \o <<"|">> \o PageA
\* "a/_p.t": a partial in the folder of PageA
PartialA == <<"a", "/", "_", "p", ".", "t">>

\* the names callers pass as page or layout
Names == {PageA, PagePipe}
\* the paths the filesystem may hold a file at
Paths == {PageA, PagePipe, PartialA}

NoFile == <<"<no file>">>
Body == <<"body">>
Body2 == <<"other">>
PartSrc == <<"part">>
LayoutSrc == <<"HEAD", "{{ block \"content\" . }}", "DEFAULT", "{{ end }}", "FOOT">>

\* the sources each path may hold
SourcesOf(p) ==
    IF p = PageA THEN {Body, Body2}
    ELSE IF p = PagePipe THEN {LayoutSrc}
    ELSE {PartSrc}

\* a file that exists and cannot be read, a directory that exists and cannot
\* be listed
Denied == <<"<unreadable file>">>
DeniedDir == <<"<unreadable directory>">>

\* errors are chains of messages, outermost first; NoErr is nil
NoErr == <<>>
ErrNotExist == <<"file does not exist">>
ErrPermission == <<"permission denied">>

\* FileWithContent{Name, Content}
FileWithContent(n, c) == [Name |-> n, Content |-> c]

\* ---------------------------------------------------------------- strings and paths
HasSuffix(s, suf) ==
    /\ Len(suf) <= Len(s)
    /\ SubSeq(s, Len(s) - Len(suf) + 1, Len(s)) = suf

HasPrefix(s, pre) ==
    /\ Len(pre) <= Len(s)
    /\ SubSeq(s, 1, Len(pre)) = pre

\* strings.TrimSuffix
TrimSuffix(s, suf) ==
    IF HasSuffix(s, suf) THEN SubSeq(s, 1, Len(s) - Len(suf)) ELSE s

RECURSIVE ExtFrom(_, _)
ExtFrom(p, i) ==
    IF i < 1 \/ p[i] = "/" THEN <<>>
    ELSE IF p[i] = "." THEN SubSeq(p, i, Len(p))
    ELSE ExtFrom(p, i - 1)

RECURSIVE ExtFirstDot(_, _)
\* the suffix beginning at the first dot of the final element
ExtFirstDot(p, i) ==
    IF i < 1 \/ p[i] = "/" THEN <<>>
    ELSE LET before == ExtFirstDot(p, i - 1)
         IN  IF before # <<>> THEN before
             ELSE IF p[i] = "." THEN SubSeq(p, i, Len(p)) ELSE <<>>
ExtAll(p) == ExtFirstDot(p, Len(p))

\* path.Ext: the suffix beginning at the final dot of the final element
Ext(p) == ExtFrom(p, Len(p))

\* the partial folder of a page: the name without its last extension
PartialDir(name) == TrimSuffix(name, Ext(name))

\* character order used by directory listings (byte order)
CharCode(c) ==
    CASE c = "." -> 46
      [] c = "/" -> 47
      [] c = "_" -> 95
      [] c = "a" -> 97
      [] c = "b" -> 98
      [] c = "c" -> 99
      [] c = "d" -> 100
      [] c = "p" -> 112
      [] c = "q" -> 113
      [] c = "s" -> 115
      [] c = "t" -> 116
      [] c = "x" -> 120
      [] c = "y" -> 121
      [] c = "z" -> 122
      [] c = "|" -> 124
      [] OTHER -> 0

\* order in which fs.WalkDir visits two paths of one tree: directory entries
\* are sorted by name and a directory's content follows the directory, which
\* is the byte order of the paths with "/" sorting before every other byte
WalkCode(c) == IF c = "/" THEN 0 ELSE CharCode(c)

RECURSIVE WalkBefore(_, _)
WalkBefore(p, q) ==
    IF p = <<>> THEN q # <<>>
    ELSE IF q = <<>> THEN FALSE
    ELSE IF Head(p) = Head(q) THEN WalkBefore(Tail(p), Tail(q))
    ELSE WalkCode(Head(p)) < WalkCode(Head(q))

\* ---------------------------------------------------------------- the filesystem
FileExists(fs, p) == p \in DOMAIN fs /\ fs[p] # NoFile

\* the files fs.WalkDir(fs, root) visits: root itself when it is a file, or
\* every file below root when it is a directory
Under(fs, root) ==
    {p \in DOMAIN fs : FileExists(fs, p) /\ (p = root \/ HasPrefix(p, root \o <<"/">>))}

RECURSIVE SortWalk(_)
SortWalk(S) ==
    IF S = {} THEN <<>>
    ELSE LET first == CHOOSE p \in S : \A q \in S \ {p} : WalkBefore(p, q)
         IN  <<first>> \o SortWalk(S \ {first})

\* the error of a failed open: "open <path>: <cause>"
PathError(p, cause) == <<"open", p>> \o cause

\* fs.ReadFile
ReadFile(fs, p) ==
    IF ~FileExists(fs, p) THEN [content |-> <<>>, err |-> PathError(p, ErrNotExist)]
    ELSE IF fs[p] \in {Denied, DeniedDir}
    THEN [content |-> <<>>, err |-> PathError(p, ErrPermission)]
    ELSE [content |-> fs[p], err |-> NoErr]

\* ---------------------------------------------------------------- partial resolvers
\* the fs.WalkDir loop of a resolver over one directory: a directory that does
\* not exist yields nothing, every file below it is read in walk order
WalkFiles(fs, dir) ==
    LET order == SortWalk(Under(fs, dir))
    IN  [i \in 1..Len(order) |-> FileWithContent(order[i], fs[order[i]])]

\* the index of the first path of a walk that cannot be read or listed, 0 when
\* there is none
FirstDenied(fs, order) ==
    LET bad == {i \in 1..Len(order) : fs[order[i]] \in {Denied, DeniedDir}}
    IN  IF bad = {} THEN 0 ELSE CHOOSE i \in bad : \A j \in bad : i <= j

\* a walk that leaves out what it cannot read and reports no error
WalkDirSkippingErrors(fs, dir) ==
    LET order == SortWalk({q \in Under(fs, dir) : fs[q] \notin {Denied, DeniedDir}})
    IN  [err |-> NoErr,
         files |-> [i \in 1..Len(order) |-> FileWithContent(order[i], fs[order[i]])]]

\* fs.WalkDir(p.FS, dir, ...) with the callback of the resolvers: a directory
\* that does not exist is no error, every other error ends the walk and is
\* returned; files holds what was appended until then
WalkDir(fs, dir) ==
    LET order == SortWalk(Under(fs, dir))
        stop == FirstDenied(fs, order)
    IN  IF stop = 0 THEN [err |-> NoErr, files |-> WalkFiles(fs, dir)]
        ELSE [err |-> PathError(order[stop], ErrPermission),
              files |-> [i \in 1..(stop - 1) |-> FileWithContent(order[i], fs[order[i]])]]

\* PartialsInFolderOnly.Load
PartialsInFolderOnly_Load(fs, name) ==
    LET walked == WalkDir(fs, PartialDir(name))
    IN  IF walked.err # NoErr THEN [err |-> walked.err, files |-> <<>>]
        ELSE [err |-> NoErr, files |-> walked.files]

RECURSIVE WithoutNames(_, _)
\* the files of a list whose names are not in a set
WithoutNames(files, names) ==
    IF files = <<>> THEN <<>>
    ELSE IF Head(files).Name \in names THEN WithoutNames(Tail(files), names)
    ELSE <<Head(files)>> \o WithoutNames(Tail(files), names)

\* a Load that leaves out of the common files those the page folder gave
PartialsWithCommon_LoadOnce(fs, commonDir, name) ==
    LET own == WalkDir(fs, PartialDir(name))
        common == WalkDir(fs, commonDir)
    IN  IF own.err # NoErr THEN [err |-> own.err, files |-> <<>>]
        ELSE IF common.err # NoErr THEN [err |-> common.err, files |-> <<>>]
        ELSE [err |-> NoErr,
              files |-> own.files \o WithoutNames(common.files,
                            {own.files[i].Name : i \in 1..Len(own.files)})]

\* PartialsWithCommon.Load: the walk of the page's folder, then the walk of
\* CommonDir, into one list
PartialsWithCommon_Load(fs, commonDir, name) ==
    LET own == WalkDir(fs, PartialDir(name))
        common == WalkDir(fs, commonDir)
    IN  IF own.err # NoErr THEN [err |-> own.err, files |-> <<>>]
        ELSE IF common.err # NoErr THEN [err |-> common.err, files |-> <<>>]
        ELSE [err |-> NoErr, files |-> own.files \o common.files]

\* ---------------------------------------------------------------- template loader
DefineContent == "{{ define \"content\" }}"
BlockContent == "{{ block \"content\" . }}"
CallContent == "{{ template \"content\" . }}"
EndTok == "{{ end }}"
\* the section name "content"
ContentName == <<"c", "o", "n", "t", "e", "n", "t">>

\* a wrapping that leaves the page source as it is
WrapNothing(c) == c

\* the page source as the body of a definition named "content"
WrapInContent(c) == <<DefineContent>> \o c \o <<EndTok>>

\* TemplateByNameLoader.Standalone
TemplateByNameLoader_Standalone(fs, name) ==
    LET r == ReadFile(fs, name)
    IN  IF r.err # NoErr
        THEN [err |-> <<"failed to read template">> \o r.err, files |-> <<>>]
        ELSE [err |-> NoErr, files |-> <<FileWithContent(name, r.content)>>]

\* a TemplateByNameLoader.InLayout that appends the layout after the page
TemplateByNameLoader_InLayoutAppended(fs, name, layout) ==
    LET pages == TemplateByNameLoader_Standalone(fs, name)
        wrapped == [i \in 1..Len(pages.files) |->
                       FileWithContent(pages.files[i].Name,
                                       <<DefineContent>> \o pages.files[i].Content
                                           \o <<EndTok>>)]
        l == ReadFile(fs, layout)
    IN  IF pages.err # NoErr THEN [err |-> pages.err, files |-> <<>>]
        ELSE IF l.err # NoErr
        THEN [err |-> <<"failed to read layout template">> \o l.err, files |-> <<>>]
        ELSE [err |-> NoErr, files |-> wrapped \o <<FileWithContent(layout, l.content)>>]

\* a TemplateByNameLoader.InLayout that reads the layout before the page
TemplateByNameLoader_InLayoutLayoutFirst(fs, name, layout) ==
    LET l == ReadFile(fs, layout)
        pages == TemplateByNameLoader_Standalone(fs, name)
        wrapped == [i \in 1..Len(pages.files) |->
                       FileWithContent(pages.files[i].Name,
                                       WrapInContent(pages.files[i].Content))]
    IN  IF l.err # NoErr
        THEN [err |-> <<"failed to read layout template">> \o l.err, files |-> <<>>]
        ELSE IF pages.err # NoErr THEN [err |-> pages.err, files |-> <<>>]
        ELSE [err |-> NoErr, files |-> <<FileWithContent(layout, l.content)>> \o wrapped]

\* TemplateByNameLoader.InLayout
TemplateByNameLoader_InLayout(fs, name, layout) ==
    LET pages == TemplateByNameLoader_Standalone(fs, name)
        wrapped == [i \in 1..Len(pages.files) |->
                       FileWithContent(pages.files[i].Name,
                                       WrapInContent(pages.files[i].Content))]
        l == ReadFile(fs, layout)
    IN  IF pages.err # NoErr THEN [err |-> pages.err, files |-> <<>>]
        ELSE IF l.err # NoErr
        THEN [err |-> <<"failed to read layout template">> \o l.err, files |-> <<>>]
        ELSE [err |-> NoErr, files |-> <<FileWithContent(layout, l.content)>> \o wrapped]

\* ---------------------------------------------------------------- template engine
\* A template set maps names to parsed bodies; nil is no template at all.
NilTemplate == [nil |-> TRUE, defs |-> <<>>]
NewTemplate == [nil |-> FALSE, defs |-> <<>>]

Put(f, k, v) == [x \in DOMAIN f \cup {k} |-> IF x = k THEN v ELSE f[x]]

SectionOf(tok) == ContentName

\* parse.Tree.add: within one parse an empty tree never replaces a tree, and
\* two non-empty trees of one name are an error
TreeAdd(st, name, body) ==
    IF name \notin DOMAIN st.trees \/ st.trees[name] = <<>>
    THEN [st EXCEPT !.trees = Put(st.trees, name, body)]
    ELSE IF body # <<>> THEN [st EXCEPT !.ok = FALSE]
    ELSE st

\* one token of the parser; st.stack holds the open definitions, innermost
\* last, as records [name, body, kind]
ParseTok(st, tok) ==
    LET depth == Len(st.stack)
        top == st.stack[depth]
    IN  IF ~st.ok THEN st
        ELSE IF tok = DefineContent
        THEN IF depth > 1 THEN [st EXCEPT !.ok = FALSE]
             ELSE [st EXCEPT !.stack = Append(st.stack,
                      [name |-> SectionOf(tok), body |-> <<>>, kind |-> "define"])]
        ELSE IF tok = BlockContent
        THEN [st EXCEPT !.stack = Append(st.stack,
                 [name |-> SectionOf(tok), body |-> <<>>, kind |-> "block"])]
        ELSE IF tok = EndTok
        THEN IF depth = 1 THEN [st EXCEPT !.ok = FALSE]
             ELSE LET rest == SubSeq(st.stack, 1, depth - 1)
                      outer == IF top.kind = "block"
                               THEN [rest EXCEPT ![depth - 1].body = Append(@, CallContent)]
                               ELSE rest
                  IN  TreeAdd([st EXCEPT !.stack = outer], top.name, top.body)
        ELSE [st EXCEPT !.stack[depth].body = Append(@, tok)]

RECURSIVE ParseToks(_, _)
ParseToks(st, toks) ==
    IF toks = <<>> THEN st ELSE ParseToks(ParseTok(st, Head(toks)), Tail(toks))

\* parse.Parse of one source under a name: the trees it defines, or failure
ParseSource(name, content) ==
    LET start == [trees |-> <<>>, ok |-> TRUE,
                  stack |-> <<[name |-> name, body |-> <<>>, kind |-> "file"]>>]
        done == ParseToks(start, content)
    IN  IF ~done.ok \/ Len(done.stack) # 1 THEN [trees |-> <<>>, ok |-> FALSE]
        ELSE LET all == TreeAdd(done, name, done.stack[1].body)
             IN  [trees |-> IF all.ok THEN all.trees ELSE <<>>, ok |-> all.ok]

\* an associate that never replaces an existing template
AssociateKeepFirst(defs, trees) ==
    [n \in DOMAIN defs \cup DOMAIN trees |->
        IF n \in DOMAIN defs THEN defs[n] ELSE trees[n]]

\* Template.associate: a tree replaces the template of its name, except that
\* an empty tree never replaces an existing template
Associate(defs, trees) ==
    [n \in DOMAIN defs \cup DOMAIN trees |->
        IF n \in DOMAIN trees /\ ~(n \in DOMAIN defs /\ trees[n] = <<>>)
        THEN trees[n] ELSE defs[n]]

\* the error of a failed parse: "template: <name>:<line>: ..."
ParseError(name) == <<"template", name>>

RECURSIVE ParseFilesKeepingParsed(_, _)
\* a loop that returns, with the error, what it parsed before the failure
ParseFilesKeepingParsed(tmplt, files) ==
    IF files = <<>> THEN [err |-> NoErr, tmplt |-> tmplt]
    ELSE LET parsed == ParseSource(Head(files).Name, Head(files).Content)
         IN  IF ~parsed.ok
             THEN [err |-> <<"failed to parse template">> \o ParseError(Head(files).Name),
                   tmplt |-> tmplt]
             ELSE ParseFilesKeepingParsed(
                      [tmplt EXCEPT !.defs = Associate(@, parsed.trees)], Tail(files))

RECURSIVE ParseFiles(_, _)
\* the loop of CreateTemplate: tmplt.New(file.Name).Parse(file.Content)
ParseFiles(tmplt, files) ==
    IF files = <<>> THEN [err |-> NoErr, tmplt |-> tmplt]
    ELSE LET parsed == ParseSource(Head(files).Name, Head(files).Content)
         IN  IF ~parsed.ok
             THEN [err |-> <<"failed to parse template">> \o ParseError(Head(files).Name),
                   tmplt |-> NilTemplate]
             ELSE ParseFiles([tmplt EXCEPT !.defs = Associate(@, parsed.trees)],
                             Tail(files))

\* CreateTemplate: a clone of base (or a new template) with every file parsed
\* into it; base itself is left as it is
CreateTemplate(base, files) ==
    LET tmplt == IF ~base.nil THEN [nil |-> FALSE, defs |-> base.defs] ELSE NewTemplate
        r == ParseFiles(tmplt, files)
    IN  [err |-> r.err, tmplt |-> r.tmplt, base |-> base]

\* ---------------------------------------------------------------- execution
\* "a/_p.t" and "_s.t" referenced from a page
CallPartialA == "{{ template \"a/_p.t\" . }}"
CallSibling == "{{ template \"_s.t\" . }}"
\* "b/_p.t" referenced from a page
CallOther == "{{ template \"b/_p.t\" . }}"
\* "_s.t": a partial lying beside PageA, in the page's own directory
SiblingA == <<"_", "s", ".", "t">>
\* "b/_p.t": a partial in a folder that is not the folder of PageA
OtherPartial == <<"b", "/", "_", "p", ".", "t">>

IsCall(tok) == tok \in {CallContent, CallPartialA, CallSibling, CallOther}
CalleeOf(tok) ==
    CASE tok = CallContent -> ContentName
      [] tok = CallPartialA -> PartialA
      [] tok = CallSibling -> SiblingA
      [] tok = CallOther -> OtherPartial

\* the depth of nested template calls after which execution gives up
MaxExecDepth == 4

\* the output of a body: text is written, a call is replaced by the output of
\* the template it names; a call of a template the set does not define is
\* an error, found when the set is escaped, before anything is written
RECURSIVE Expand(_, _, _)
Expand(defs, body, depth) ==
    IF body = <<>> THEN [err |-> NoErr, written |-> <<>>]
    ELSE LET tok == Head(body)
             first == IF ~IsCall(tok) THEN [err |-> NoErr, written |-> <<tok>>]
                      ELSE IF CalleeOf(tok) \notin DOMAIN defs
                      THEN [err |-> <<"no such template", CalleeOf(tok)>>, written |-> <<>>]
                      ELSE IF depth = 0
                      THEN [err |-> <<"exceeded maximum template depth">>, written |-> <<>>]
                      ELSE Expand(defs, defs[CalleeOf(tok)], depth - 1)
             rest == Expand(defs, Tail(body), depth)
         IN  IF first.err # NoErr THEN first
             ELSE IF rest.err # NoErr THEN rest
             ELSE [err |-> NoErr, written |-> first.written \o rest.written]

\* Template.ExecuteTemplate(out, name, data): the error and what is written
ExecuteTemplate(tmplt, name) ==
    IF name \notin DOMAIN tmplt.defs
    THEN [err |-> <<"html/template", name, "is undefined">>, written |-> <<>>]
    ELSE Expand(tmplt.defs, tmplt.defs[name], MaxExecDepth)

\* ---------------------------------------------------------------- the cache
\* the key of CachedLoader.Standalone
StandaloneKey(name) == name
\* the key of CachedLoader.InLayout: name+"|"+layout
InLayoutKey(name, layout) == name \o <<"|">> \o layout

\* a lookup that never finds an entry
MapLoadMiss(d, key) == [v |-> <<>>, ok |-> FALSE]
\* a lookup that finds the entry and loses its value
MapLoadNoValue(d, key) == [v |-> <<>>, ok |-> key \in DOMAIN d]

\* sync.Map.Load: the value and whether the key is present
MapLoad(d, key) ==
    IF key \in DOMAIN d THEN [v |-> d[key], ok |-> TRUE] ELSE [v |-> <<>>, ok |-> FALSE]
\* a store that keeps the list without its last fragment
MapStoreTorn(d, key, v) == Put(d, key, SubSeq(v, 1, Len(v) - 1))
\* a store that leaves the map as it is
MapStoreNothing(d, key, v) == d
\* sync.Map.Store
MapStore(d, key, v) == Put(d, key, v)

\* ---------------------------------------------------------------- state
VARIABLES
    fsys,            \* the filesystem: path -> source, or NoFile
    templateConfig,  \* Loader.TemplateConfig
    data,            \* CachedLoader.data
    call,            \* per caller: the Loader call it is in and what it holds
    last,            \* the Loader call that returned last, with what it returned
    loads,           \* history: per key, how often the underlying loader was invoked
    produced,        \* history: per key, the results of its successful underlying loads
    storedBy,        \* history: per cached key, the request whose result is stored
    ncalls,          \* history: Loader calls begun
    heap,            \* the template objects: the shared base and each assembly's unit
    asm,             \* per caller: the CreateTemplate call it is in
    created,         \* the CreateTemplate call that returned last, with what it returned
    resolved,        \* the partial resolver call that returned last
    rendered         \* the Render / RenderInLayout call that returned last

vars == <<fsys, templateConfig, data, call, last, loads, produced, storedBy, ncalls,
          heap, asm, created, resolved, rendered>>

\* the state of the cached Loader, and the state beside it
loaderVars == <<templateConfig, data, call, last, loads, produced, storedBy, ncalls>>
besideVars == <<heap, asm, created, resolved, rendered>>

NoLayout == <<>>
Requests ==
    [name : Names, layout : {NoLayout}, op : {"Standalone"}]
        \cup [name : Names, layout : Names, op : {"InLayout"}]

KeyOf(r) ==
    IF r.op = "Standalone" THEN StandaloneKey(r.name) ELSE InLayoutKey(r.name, r.layout)

Keys == {KeyOf(r) : r \in Requests}

\* a TemplateConfig carrying one definition of its own
BaseName == <<"b">>
BaseTemplate == [nil |-> FALSE, defs |-> Put(<<>>, BaseName, <<"base">>)]

NoRequest == [name |-> <<>>, layout |-> NoLayout, op |-> "none"]
NoArgs == [files |-> <<>>, base |-> NilTemplate, called |-> FALSE]

IdleCall ==
    [pc |-> "idle", req |-> NoRequest, partialsFor |-> <<>>, partials |-> <<>>,
     loaded |-> <<>>]

\* what a returned Loader call leaves behind: the request, the argument given
\* to the resolver and the partials it returned, whether the cache answered,
\* what the template loader returned (files, lerr), what CreateTemplate was
\* called with, and the template and error the Loader returned
NoReturn ==
    [err |-> NoErr, files |-> <<>>, tmplt |-> NilTemplate, req |-> NoRequest,
     partialsFor |-> <<>>, partials |-> <<>>, hit |-> FALSE, lerr |-> NoErr,
     args |-> NoArgs]

KeyOfCall(p) == KeyOf(call[p].req)

\* the template objects before any assembly: the shared base, and no unit
BaseId == "base"
NoUnits == [id \in {BaseId} \cup Callers |-> IF id = BaseId THEN BaseTemplate ELSE NilTemplate]

\* a CreateTemplate call: the files still to parse, the files it was given,
\* the object it parses into, and what it returned
NoUnit == "none"
IdleAssembly ==
    [err |-> NoErr, files |-> <<>>, pc |-> "idle", given |-> <<>>, unit |-> NoUnit]

\* what a returned CreateTemplate call leaves behind: its arguments, the error
\* and the template it returned, and the base as it is after the call
NoCreated ==
    [err |-> NoErr, files |-> <<>>, tmplt |-> NilTemplate, base |-> NilTemplate,
     called |-> FALSE, after |-> NilTemplate]

\* what a returned resolver call leaves behind
NoResolved ==
    [name |-> <<>>, err |-> NoErr, dir |-> <<>>, files |-> <<>>, resolver |-> "none"]

\* what a returned Render / RenderInLayout call leaves behind: the request,
\* what the loader returned, the entry point executed, the error returned and
\* what was written
NoRendered ==
    [name |-> <<>>, err |-> NoErr, layout |-> NoLayout, written |-> <<>>,
     op |-> "none", loader |-> NoReturn, executed |-> <<>>]

Init ==
    /\ fsys \in {f \in [Paths -> UNION {SourcesOf(q) : q \in Paths} \cup {NoFile}] :
                    /\ \A q \in Names : f[q] \in SourcesOf(q) \cup {NoFile}
                    /\ \A q \in Paths \ Names : f[q] \in SourcesOf(q)}
    /\ templateConfig = BaseTemplate
    /\ data = <<>>
    /\ call = [p \in Callers |-> IdleCall]
    /\ last = NoReturn
    /\ loads = [k \in Keys |-> 0]
    /\ produced = [k \in Keys |-> {}]
    /\ storedBy = <<>>
    /\ ncalls = 0
    /\ heap = NoUnits
    /\ asm = [a \in Callers |-> IdleAssembly]
    /\ created = NoCreated
    /\ resolved = NoResolved
    /\ rendered = NoRendered

\* ---------------------------------------------------------------- the Loader
\* a resolver that returns every file of the filesystem that lies in a folder
PartialsEverywhere(fs, name) ==
    LET order == SortWalk({q \in DOMAIN fs : FileExists(fs, q) /\ \E i \in 1..Len(q) : q[i] = "/"})
    IN  [err |-> NoErr,
         files |-> [i \in 1..Len(order) |-> FileWithContent(order[i], fs[order[i]])]]

\* l.PartialsFor as WithDefaults sets it
PartialsFor(fs, name) == PartialsInFolderOnly_Load(fs, name)

\* a wrapping that names the page and never the layout
CollectErrWithoutLayout(r, e) == <<"failed to collect all files for", r.name>> \o e

\* the wrapping of a failure by Loader.Standalone / Loader.InLayout
CollectErr(r, e) ==
    IF r.op = "Standalone"
    THEN <<"failed to collect all files for", r.name>> \o e
    ELSE <<"failed to collect all for", r.name, "in layout", r.layout>> \o e
PartialsErr(r, e) ==
    IF r.op = "Standalone"
    THEN <<"failed to collect all files for", r.name>> \o e
    ELSE <<"failed to collect partials for", r.name>> \o e
CreateErr(r, e) ==
    IF r.op = "Standalone"
    THEN <<"failed to create template for", r.name>> \o e
    ELSE <<"failed to create template for", r.name, "in layout", r.layout>> \o e

\* a list with the loaded fragments before the partials
PageBeforePartials(partials, loaded) == loaded \o partials
\* the list Loader.Standalone / Loader.InLayout hands to CreateTemplate
FilesForCreate(partials, loaded) == partials \o loaded
\* the base Loader.Standalone / Loader.InLayout hands to CreateTemplate
BaseForCreate(config) == config

\* a Loader that hands what it has to CreateTemplate although the template
\* loader failed
AfterTemplateLoaderCreatingAnyway(c, hit, config, files, e) ==
    LET ret == [NoReturn EXCEPT !.req = c.req, !.partialsFor = c.partialsFor,
                                !.partials = c.partials, !.hit = hit]
        all == FilesForCreate(c.partials, files)
        base == BaseForCreate(config)
        made == CreateTemplate(base, all)
    IN  [ret EXCEPT !.files = files, !.lerr = e,
                    !.args = [files |-> all, base |-> base, called |-> TRUE],
                    !.tmplt = made.tmplt,
                    !.err = IF e # NoErr THEN CollectErr(c.req, e)
                            ELSE IF made.err # NoErr
                            THEN CreateErr(c.req, made.err) ELSE NoErr]

\* the Loader after l.TemplateLoader returned (files, e) to the call c: the
\* failure is wrapped and returned, or CreateTemplate is called and its
\* result returned
AfterTemplateLoader(c, hit, config, files, e) ==
    LET ret == [NoReturn EXCEPT !.req = c.req, !.partialsFor = c.partialsFor,
                                !.partials = c.partials, !.hit = hit]
    IN  IF e # NoErr
        THEN [ret EXCEPT !.lerr = e, !.err = CollectErr(c.req, e)]
        ELSE LET all == FilesForCreate(c.partials, files)
                 base == BaseForCreate(config)
                 made == CreateTemplate(base, all)
             IN  [ret EXCEPT !.files = files,
                             !.args = [files |-> all, base |-> base, called |-> TRUE],
                             !.tmplt = made.tmplt,
                             !.err = IF made.err # NoErr
                                     THEN CreateErr(c.req, made.err) ELSE NoErr]

\* the name Loader.Standalone / Loader.InLayout passes to l.PartialsFor
PartialsForArg(r) == r.name

\* Loader.Standalone(name) / Loader.InLayout(page, layout) up to the call of
\* l.TemplateLoader: the partials are collected
Begin(p, r) ==
    /\ call[p].pc = "idle"
    /\ ncalls < MaxCalls
    /\ LET arg == PartialsForArg(r)
           got == PartialsFor(fsys, arg)
           c == [IdleCall EXCEPT !.req = r, !.partialsFor = arg]
       IN  IF got.err # NoErr
           THEN /\ last' = [NoReturn EXCEPT !.req = r, !.partialsFor = arg,
                                            !.err = PartialsErr(r, got.err)]
                /\ UNCHANGED call
           ELSE /\ call' = [call EXCEPT ![p] =
                       [c EXCEPT !.pc = "lookup", !.partials = got.files]]
                /\ UNCHANGED last
    /\ ncalls' = ncalls + 1
    /\ UNCHANGED <<fsys, templateConfig, data, loads, produced, storedBy>>
    /\ UNCHANGED besideVars

Standalone(p) ==
    \E n \in Names : Begin(p, [name |-> n, layout |-> NoLayout, op |-> "Standalone"])

InLayout(p) ==
    \E n \in Names, l \in Names : Begin(p, [name |-> n, layout |-> l, op |-> "InLayout"])

\* CachedLoader.loadOrStore, c.data.Load(cacheKey): a hit returns the stored
\* list to the Loader, a miss goes on to load()
Lookup(p) ==
    /\ call[p].pc = "lookup"
    /\ LET found == MapLoad(data, KeyOfCall(p))
       IN  IF found.ok
           THEN /\ last' = AfterTemplateLoader(call[p], TRUE, templateConfig,
                                               found.v, NoErr)
                /\ call' = [call EXCEPT ![p] = IdleCall]
           ELSE /\ call' = [call EXCEPT ![p].pc = "load"]
                /\ UNCHANGED last
    /\ UNCHANGED <<fsys, templateConfig, data, loads, produced, storedBy, ncalls>>
    /\ UNCHANGED besideVars

\* the underlying loader of the CachedLoader
Underlying(fs, r) ==
    IF r.op = "Standalone" THEN TemplateByNameLoader_Standalone(fs, r.name)
    ELSE TemplateByNameLoader_InLayout(fs, r.name, r.layout)

\* a load() whose failure is stored, as an empty list, under the key
LoadCachingFailure(p) ==
    /\ call[p].pc = "load"
    /\ LET got == Underlying(fsys, call[p].req)
           k == KeyOfCall(p)
       IN  /\ loads' = [loads EXCEPT ![k] = @ + 1]
           /\ IF got.err # NoErr
              THEN /\ last' = AfterTemplateLoader(call[p], FALSE, templateConfig,
                                                  <<>>, got.err)
                   /\ call' = [call EXCEPT ![p] = IdleCall]
                   /\ data' = Put(data, k, <<>>)
                   /\ storedBy' = Put(storedBy, k, call[p].req)
                   /\ UNCHANGED produced
              ELSE /\ call' = [call EXCEPT ![p].pc = "store", ![p].loaded = got.files]
                   /\ produced' = [produced EXCEPT ![k] = @ \cup {got.files}]
                   /\ UNCHANGED <<last, data, storedBy>>
    /\ UNCHANGED <<fsys, templateConfig, ncalls>>
    /\ UNCHANGED besideVars

\* CachedLoader.loadOrStore, load(): a failure is returned as it is
Load(p) ==
    /\ call[p].pc = "load"
    /\ LET got == Underlying(fsys, call[p].req)
           k == KeyOfCall(p)
       IN  /\ loads' = [loads EXCEPT ![k] = @ + 1]
           /\ IF got.err # NoErr
              THEN /\ last' = AfterTemplateLoader(call[p], FALSE, templateConfig,
                                                  <<>>, got.err)
                   /\ call' = [call EXCEPT ![p] = IdleCall]
                   /\ UNCHANGED produced
              ELSE /\ call' = [call EXCEPT ![p].pc = "store", ![p].loaded = got.files]
                   /\ produced' = [produced EXCEPT ![k] = @ \cup {got.files}]
                   /\ UNCHANGED last
    /\ UNCHANGED <<fsys, templateConfig, data, storedBy, ncalls>>
    /\ UNCHANGED besideVars

\* CachedLoader.loadOrStore, c.data.Store(cacheKey, files) and the return
Store(p) ==
    /\ call[p].pc = "store"
    /\ data' = MapStore(data, KeyOfCall(p), call[p].loaded)
    /\ storedBy' = Put(storedBy, KeyOfCall(p), call[p].req)
    /\ last' = AfterTemplateLoader(call[p], FALSE, templateConfig, call[p].loaded, NoErr)
    /\ call' = [call EXCEPT ![p] = IdleCall]
    /\ UNCHANGED <<fsys, templateConfig, loads, produced, ncalls>>
    /\ UNCHANGED besideVars

\* ---------------------------------------------------------------- the environment
\* a page or layout file is written or replaced
WriteFile ==
    /\ \E q \in Names : \E src \in SourcesOf(q) \ {fsys[q]} :
           fsys' = [fsys EXCEPT ![q] = src]
    /\ UNCHANGED <<templateConfig, data, call, last, loads, produced, storedBy, ncalls>>
    /\ UNCHANGED besideVars

\* a page or layout file is removed
RemoveFile ==
    /\ \E q \in Names : fsys[q] # NoFile /\ fsys' = [fsys EXCEPT ![q] = NoFile]
    /\ UNCHANGED <<templateConfig, data, call, last, loads, produced, storedBy, ncalls>>
    /\ UNCHANGED besideVars

InFlight(p) == call[p].pc # "idle"

Next ==
    \/ \E p \in Callers : Standalone(p)
    \/ \E p \in Callers : InLayout(p)
    \/ \E p \in Callers : Lookup(p)
    \/ \E p \in Callers : Load(p)
    \/ \E p \in Callers : Store(p)
    \/ WriteFile
    \/ RemoveFile

\* callers in any interleaving
Spec == Init /\ [][Next]_vars

\* one call at a time: a call begins only when no other call is in flight
NextSeq ==
    \/ \E p \in Callers : (\A q \in Callers : ~InFlight(q)) /\ Standalone(p)
    \/ \E p \in Callers : (\A q \in Callers : ~InFlight(q)) /\ InLayout(p)
    \/ \E p \in Callers : Lookup(p)
    \/ \E p \in Callers : Load(p)
    \/ \E p \in Callers : Store(p)
    \/ WriteFile
    \/ RemoveFile

SpecSeq == Init /\ [][NextSeq]_vars

\* ---------------------------------------------------------------- CreateTemplate alone
\* the fragments handed to CreateTemplate: two names, one of them "content",
\* and sources that are empty, plain, a definition of "content" only, or
\* not parseable (a definition that is never closed)
FragX == <<"x">>
SrcEmpty == <<>>
SrcA == <<"A">>
SrcB == <<"B">>
SrcDefine == <<DefineContent, "D", EndTok>>
SrcUnclosed == <<DefineContent, "D">>

Fragments ==
    {FileWithContent(n, c) : n \in {FragX, ContentName},
                             c \in {SrcEmpty, SrcA, SrcB, SrcDefine, SrcUnclosed}}
FileLists == UNION {[1..n -> Fragments] : n \in 0..MaxFiles}

\* no file at all, the Loader and every caller idle, nothing returned yet
NoFiles == [q \in Paths |-> NoFile]
InitIdle ==
    /\ fsys = NoFiles
    /\ templateConfig = BaseTemplate
    /\ data = <<>>
    /\ call = [p \in Callers |-> IdleCall]
    /\ last = NoReturn
    /\ loads = [k \in Keys |-> 0]
    /\ produced = [k \in Keys |-> {}]
    /\ storedBy = <<>>
    /\ ncalls = 0
    /\ heap = NoUnits
    /\ asm = [a \in Callers |-> IdleAssembly]
    /\ created = NoCreated
    /\ resolved = NoResolved
    /\ rendered = NoRendered

\* CreateTemplate(base, files), called and returned
Create ==
    /\ ~created.called
    /\ \E base \in {NilTemplate, BaseTemplate}, files \in FileLists :
          LET made == CreateTemplate(base, files)
          IN  created' = [NoCreated EXCEPT !.err = made.err, !.files = files,
                                           !.tmplt = made.tmplt, !.base = base,
                                           !.called = TRUE, !.after = made.base]
    /\ UNCHANGED <<fsys, loaderVars, heap, asm, resolved, rendered>>

NextCreate == Create

SpecCreate == InitIdle /\ [][NextCreate]_vars

\* ---------------------------------------------------------------- CreateTemplate, step by step
\* the fragments of the assemblies that run side by side from the shared base
AssemblyFragments ==
    {FileWithContent(FragX, SrcA), FileWithContent(FragX, SrcUnclosed),
     FileWithContent(ContentName, SrcB), FileWithContent(ContentName, SrcDefine)}
AssemblyLists == UNION {[1..n -> AssemblyFragments] : n \in 0..MaxFiles}

\* an object that is the base itself, not a copy of it
SharedTarget(a) == BaseId
\* base.Clone(): the object the copy lives in, one of the caller's own
CloneTarget(a) == a

\* CreateTemplate, tmplt, err = base.Clone()
AssembleClone(a) ==
    /\ asm[a].pc \in {"idle", "done"}
    /\ \E files \in AssemblyLists :
          LET unit == CloneTarget(a)
          IN  /\ heap' = [heap EXCEPT ![unit] = [nil |-> FALSE, defs |-> heap[BaseId].defs]]
              /\ asm' = [asm EXCEPT ![a] =
                     [IdleAssembly EXCEPT !.files = files, !.pc = "parse",
                                          !.given = files, !.unit = unit]]
    /\ UNCHANGED <<fsys, loaderVars, created, resolved, rendered>>

\* CreateTemplate, one round of the loop: tmplt.New(file.Name).Parse(file.Content)
AssembleParse(a) ==
    /\ asm[a].pc = "parse"
    /\ asm[a].files # <<>>
    /\ LET file == Head(asm[a].files)
           parsed == ParseSource(file.Name, file.Content)
       IN  IF ~parsed.ok
           THEN /\ asm' = [asm EXCEPT ![a].pc = "done", ![a].unit = NoUnit,
                                      ![a].err = <<"failed to parse template">>
                                                    \o ParseError(file.Name)]
                /\ UNCHANGED heap
           ELSE /\ heap' = [heap EXCEPT ![asm[a].unit].defs = Associate(@, parsed.trees)]
                /\ asm' = [asm EXCEPT ![a].files = Tail(@)]
    /\ UNCHANGED <<fsys, loaderVars, created, resolved, rendered>>

\* CreateTemplate, return tmplt, nil
AssembleReturn(a) ==
    /\ asm[a].pc = "parse"
    /\ asm[a].files = <<>>
    /\ asm' = [asm EXCEPT ![a].pc = "done"]
    /\ UNCHANGED <<fsys, loaderVars, heap, created, resolved, rendered>>

NextAssemble ==
    \/ \E a \in Callers : AssembleClone(a)
    \/ \E a \in Callers : AssembleParse(a)
    \/ \E a \in Callers : AssembleReturn(a)

SpecAssemble == InitIdle /\ [][NextAssemble]_vars

\* ---------------------------------------------------------------- the stages of the Loader
\* filesystems on which each stage of the Loader can fail: the partial of
\* PageA may be unreadable (the resolver fails), the page and the layout may
\* be missing (the template loader fails), the page may hold a definition
\* that is never closed (CreateTemplate fails)
StageSourcesOf(p) ==
    IF p = PageA THEN {NoFile, Body, SrcUnclosed}
    ELSE IF p = PagePipe THEN {NoFile, LayoutSrc}
    ELSE {NoFile, PartSrc, Denied}

InitStages ==
    /\ fsys \in {f \in [Paths -> UNION {StageSourcesOf(q) : q \in Paths}] :
                    \A q \in Paths : f[q] \in StageSourcesOf(q)}
    /\ templateConfig = BaseTemplate
    /\ data = <<>>
    /\ call = [p \in Callers |-> IdleCall]
    /\ last = NoReturn
    /\ loads = [k \in Keys |-> 0]
    /\ produced = [k \in Keys |-> {}]
    /\ storedBy = <<>>
    /\ ncalls = 0
    /\ heap = NoUnits
    /\ asm = [a \in Callers |-> IdleAssembly]
    /\ created = NoCreated
    /\ resolved = NoResolved
    /\ rendered = NoRendered

\* the callers of the Loader in any interleaving, the files left as they are
NextStages ==
    \/ \E p \in Callers : Standalone(p)
    \/ \E p \in Callers : InLayout(p)
    \/ \E p \in Callers : Lookup(p)
    \/ \E p \in Callers : Load(p)
    \/ \E p \in Callers : Store(p)

SpecStages == InitStages /\ [][NextStages]_vars

\* ---------------------------------------------------------------- the resolvers alone
\* the pages asked for: "t.a.b" and "t.a" (two extensions and one), "p" (no
\* extension) and "c.a", whose folder is the common folder
PageTAB == <<"t", ".", "a", ".", "b">>
PageTA == <<"t", ".", "a">>
PageP == <<"p">>
PageCA == <<"c", ".", "a">>
PartialPages == {PageTAB, PageTA, PageP, PageCA}

\* PartialsWithCommon.CommonDir
CommonDir == <<"c">>

\* the files: one in each of the folders "t.a", "t", "t/s" and "c", the
\* pages "t.a.b" and "p", the partial "_q.a" beside them; and the folder "t/d"
FileTAX == <<"t", ".", "a", "/", "x">>
FileTX == <<"t", "/", "x">>
FileTSY == <<"t", "/", "s", "/", "y">>
FileCZ == <<"c", "/", "z">>
FileQ == <<"_", "q", ".", "a">>
DirTD == <<"t", "/", "d">>
PartialPaths == {FileTAX, FileTX, FileTSY, FileCZ, FileQ, PageTAB, PageP, DirTD}

\* what each path may hold: files are there or not, two of them may be
\* unreadable, the folder is not there or cannot be listed
PartialSourcesOf(q) ==
    IF q = DirTD THEN {NoFile, DeniedDir}
    ELSE IF q \in {FileTX, FileCZ} THEN {NoFile, PartSrc, Denied}
    ELSE {NoFile, PartSrc}

InitPartials ==
    /\ fsys \in {f \in [PartialPaths -> {NoFile, PartSrc, Denied, DeniedDir}] :
                    \A q \in PartialPaths : f[q] \in PartialSourcesOf(q)}
    /\ templateConfig = BaseTemplate
    /\ data = <<>>
    /\ call = [p \in Callers |-> IdleCall]
    /\ last = NoReturn
    /\ loads = [k \in Keys |-> 0]
    /\ produced = [k \in Keys |-> {}]
    /\ storedBy = <<>>
    /\ ncalls = 0
    /\ heap = NoUnits
    /\ asm = [a \in Callers |-> IdleAssembly]
    /\ created = NoCreated
    /\ resolved = NoResolved
    /\ rendered = NoRendered

\* PartialsInFolderOnly.Load(name), called and returned
LoadFolderOnly ==
    /\ \E n \in PartialPages :
          LET got == PartialsInFolderOnly_Load(fsys, n)
          IN  resolved' = [name |-> n, err |-> got.err, dir |-> PartialDir(n),
                           files |-> got.files, resolver |-> "FolderOnly"]
    /\ UNCHANGED <<fsys, loaderVars, heap, asm, created, rendered>>

\* PartialsWithCommon.Load(name), called and returned
LoadWithCommon ==
    /\ \E n \in PartialPages :
          LET got == PartialsWithCommon_Load(fsys, CommonDir, n)
          IN  resolved' = [name |-> n, err |-> got.err, dir |-> PartialDir(n),
                           files |-> got.files, resolver |-> "WithCommon"]
    /\ UNCHANGED <<fsys, loaderVars, heap, asm, created, rendered>>

NextPartials == LoadFolderOnly \/ LoadWithCommon

SpecPartials == InitPartials /\ [][NextPartials]_vars

\* ---------------------------------------------------------------- Passepartout
\* the Loader as WithDefaults builds it, called and returned: PartialsFor is
\* PartialsInFolderOnly.Load, TemplateLoader is the TemplateByNameLoader
LoaderCall(fs, config, r) ==
    LET arg == PartialsForArg(r)
        got == PartialsFor(fs, arg)
        c == [IdleCall EXCEPT !.req = r, !.partialsFor = arg, !.partials = got.files]
        loaded == Underlying(fs, r)
    IN  IF got.err # NoErr
        THEN [NoReturn EXCEPT !.req = r, !.partialsFor = arg,
                              !.err = PartialsErr(r, got.err)]
        ELSE AfterTemplateLoader(c, FALSE, config, loaded.files, loaded.err)

\* the files a rendering may find: the page, the layout, the partial in the
\* page's folder and the partial beside the page
RenderPaths == Paths \cup {SiblingA, OtherPartial, ContentName, PageP}
BodyWithPartial == <<"body", CallPartialA>>
BodyWithSibling == <<"body", CallSibling>>
BodyWithOther == <<"body", CallOther>>
SiblingSrc == <<"sibling">>
OtherSrc == <<"item">>
PlainLayoutSrc == <<"HEAD", "FOOT">>
RenderSourcesOf(p) ==
    IF p = PageA THEN {Body, BodyWithPartial, BodyWithSibling, BodyWithOther}
    ELSE IF p = PagePipe THEN {LayoutSrc}
    ELSE IF p = PartialA THEN {PartSrc}
    ELSE IF p = OtherPartial THEN {OtherSrc}
    ELSE IF p = ContentName THEN {PlainLayoutSrc}
    ELSE IF p = PageP THEN {Body, SrcDefine}
    ELSE {SiblingSrc}

\* what a path may hold: one of its sources, or no file
RenderFileOf(p) == RenderSourcesOf(p) \cup {NoFile}
\* the filesystems a rendering may start from
RenderFilesystems ==
    {[q \in RenderPaths |->
         CASE q = PageA -> fa
           [] q = PagePipe -> fl
           [] q = PartialA -> fp
           [] q = SiblingA -> fs
           [] q = OtherPartial -> fo
           [] q = ContentName -> fc
           [] q = PageP -> fe] :
     fa \in RenderFileOf(PageA), fl \in RenderFileOf(PagePipe),
     fp \in RenderFileOf(PartialA), fs \in RenderFileOf(SiblingA),
     fo \in RenderFileOf(OtherPartial), fc \in RenderFileOf(ContentName),
     fe \in RenderFileOf(PageP)}

InitRender ==
    /\ fsys \in RenderFilesystems
    /\ templateConfig = BaseTemplate
    /\ data = <<>>
    /\ call = [p \in Callers |-> IdleCall]
    /\ last = NoReturn
    /\ loads = [k \in Keys |-> 0]
    /\ produced = [k \in Keys |-> {}]
    /\ storedBy = <<>>
    /\ ncalls = 0
    /\ heap = NoUnits
    /\ asm = [a \in Callers |-> IdleAssembly]
    /\ created = NoCreated
    /\ resolved = NoResolved
    /\ rendered = NoRendered

NoEntry == <<>>

\* the request Render makes of the loader: p.loader.Standalone(name)
RenderRequest(name) == [name |-> name, layout |-> NoLayout, op |-> "Standalone"]
\* a request with page and layout in each other's place
InLayoutRequestSwapped(layout, name) == [name |-> layout, layout |-> name, op |-> "InLayout"]
\* the request RenderInLayout makes: p.loader.InLayout(name, layout)
RenderInLayoutRequest(layout, name) == [name |-> name, layout |-> layout, op |-> "InLayout"]

\* the entry point Render executes
RenderEntry(name) == name
\* the entry point RenderInLayout executes
RenderInLayoutEntry(layout, name) == layout

\* a return that wraps the loader's error in one of its own
ExecuteOrWrap(got, entry) ==
    IF got.err # NoErr
    THEN [err |-> <<"failed to render">> \o got.err, written |-> <<>>, executed |-> NoEntry]
    ELSE LET ex == ExecuteTemplate(got.tmplt, entry)
         IN  [err |-> ex.err, written |-> ex.written, executed |-> entry]

\* Render / RenderInLayout after the loader returned: its error is returned
\* as it is, or the entry point is executed into the writer
ExecuteOrReturn(got, entry) ==
    IF got.err # NoErr
    THEN [err |-> got.err, written |-> <<>>, executed |-> NoEntry]
    ELSE LET ex == ExecuteTemplate(got.tmplt, entry)
         IN  [err |-> ex.err, written |-> ex.written, executed |-> entry]

\* the pages asked for alone: the pages, and the page without extension
RenderNames == Names \cup {PageP}

\* Passepartout.Render(out, name, data)
Render ==
    /\ \E n \in RenderNames :
          LET got == LoaderCall(fsys, templateConfig, RenderRequest(n))
              ret == ExecuteOrReturn(got, RenderEntry(n))
          IN  rendered' = [NoRendered EXCEPT !.name = n, !.err = ret.err, !.op = "Render",
                                            !.loader = got, !.executed = ret.executed,
                                            !.written = ret.written]
    /\ UNCHANGED <<fsys, loaderVars, heap, asm, created, resolved>>

\* the layouts asked for: the pages, the file in the folder of PageA, and a
\* file named "content"
Layouts == Names \cup {PartialA, ContentName}

\* Passepartout.RenderInLayout(out, layout, name, data)
RenderInLayout ==
    /\ \E l \in Layouts, n \in Names :
          LET got == LoaderCall(fsys, templateConfig, RenderInLayoutRequest(l, n))
              ret == ExecuteOrReturn(got, RenderInLayoutEntry(l, n))
          IN  rendered' = [NoRendered EXCEPT !.name = n, !.err = ret.err, !.layout = l,
                                            !.op = "RenderInLayout", !.loader = got,
                                            !.executed = ret.executed,
                                            !.written = ret.written]
    /\ UNCHANGED <<fsys, loaderVars, heap, asm, created, resolved>>

NextRender == Render \/ RenderInLayout

SpecRender == InitRender /\ [][NextRender]_vars

\* ---------------------------------------------------------------- properties
\* the step of caller p that leaves the given place of loadOrStore
LookupStep(p) == call[p].pc = "lookup" /\ call'[p] # call[p]
LoadStep(p) == call[p].pc = "load" /\ call'[p] # call[p]
StoreStep(p) == call[p].pc = "store" /\ call'[p] # call[p]
Returned(p) == call[p].pc # "idle" /\ call'[p].pc = "idle"

\* C1: with calls made one after the other, once a key is stored every call
\* for that key is answered by the lookup alone: it returns the stored list
\* with no error, and the number of invocations of the underlying loader for
\* that key never changes again (it stays at the one successful invocation).
C1_StoredKeyServedWithoutLoad ==
    [][\A p \in Callers :
          LET k == KeyOfCall(p)
          IN  /\ (k \in DOMAIN data /\ LookupStep(p)) =>
                    /\ Returned(p)
                    /\ last'.req = call[p].req
                    /\ last'.hit
                    /\ last'.lerr = NoErr
                    /\ last'.files = data[k]
              /\ \A key \in DOMAIN data :
                    /\ loads'[key] = loads[key]
                    /\ produced'[key] = produced[key]
                    /\ Cardinality(produced[key]) = 1]_vars

\* C1 witness: a call was answered from the cache for a key that was loaded once
C1_Witness ==
    /\ last.hit
    /\ last.lerr = NoErr
    /\ KeyOf(last.req) \in DOMAIN data
    /\ last.files = data[KeyOf(last.req)]
    /\ loads[KeyOf(last.req)] = 1

\* C2: a failing underlying load returns its error with a nil list and leaves
\* the cache as it was; a key none of whose loads succeeded has no entry;
\* a call that finds no entry invokes the underlying loader; and the result
\* of a load that succeeds is what is stored under the key.
C2_ErrorsNeverCached ==
    [][\A p \in Callers :
          LET k == KeyOfCall(p)
              got == Underlying(fsys, call[p].req)
          IN  /\ (LoadStep(p) /\ got.err # NoErr) =>
                    /\ data' = data
                    /\ Returned(p)
                    /\ last'.req = call[p].req
                    /\ last'.lerr = got.err
                    /\ last'.files = <<>>
                    /\ last'.tmplt = NilTemplate
                    /\ last'.err # NoErr
              /\ (LoadStep(p) /\ got.err = NoErr) =>
                    /\ call'[p].pc = "store"
                    /\ call'[p].loaded = got.files
              /\ (LookupStep(p) /\ k \notin DOMAIN data) =>
                    /\ call'[p].pc = "load"
                    /\ data' = data
              /\ StoreStep(p) => (k \in DOMAIN data' /\ data'[k] = call[p].loaded)
              /\ \A key \in Keys : produced'[key] = {} => key \notin DOMAIN data']_vars

\* C2 witness: the key of the call served from the cache failed to load
\* before it was loaded successfully
C2_Witness ==
    /\ last.hit
    /\ loads[KeyOf(last.req)] >= 2
    /\ Cardinality(produced[KeyOf(last.req)]) = 1

\* C3: a call InLayout(c, d) is never answered with an entry that was stored
\* for a different pair InLayout(a, b).
C3_InLayoutKeyInjective ==
    [][\A p \in Callers :
          LET k == KeyOfCall(p)
          IN  (/\ LookupStep(p)
               /\ call[p].req.op = "InLayout"
               /\ k \in DOMAIN data
               /\ storedBy[k].op = "InLayout") => storedBy[k] = call[p].req]_vars

\* what a returned call shows of its accesses: the resolver was called (a
\* directory walk), CreateTemplate was called (a parse)
WalkedPartials(ret) == ret.partialsFor # <<>>
ParsedFiles(ret) == ret.args.called

C5_CheckAndStoreAtomic ==
    [][\A p \in Callers : StoreStep(p) => KeyOfCall(p) \notin DOMAIN data]_vars

\* C6: under every interleaving, every list held in the cache for a key and
\* every list returned without error for that key is, whole, the result of
\* one successful invocation of the underlying loader for that key.
C6_OnlyWholeResults ==
    /\ \A k \in DOMAIN data : data[k] \in produced[k]
    /\ (last.req # NoRequest /\ last.lerr = NoErr /\ last.args.called) =>
           last.files \in produced[KeyOf(last.req)]

\* C6 witness: two concurrent misses loaded different results for one key,
\* and the cache holds one of them
C6_Witness ==
    \E k \in DOMAIN data : Cardinality(produced[k]) >= 2 /\ loads[k] >= 2

\* C7: an entry once stored is never removed and never changes.
C7_EntriesNeverChange ==
    [][\A k \in DOMAIN data : k \in DOMAIN data' /\ data'[k] = data[k]]_vars

\* C8: Loader.Standalone(name) calls the resolver with name, and calls
\* CreateTemplate with the configured TemplateConfig and with the partials,
\* in resolver order, followed by what the template loader returned for the
\* page; it returns the template CreateTemplate made.
C8_StandaloneComposition ==
    (last.req.op = "Standalone") =>
        /\ last.partialsFor = last.req.name
        /\ last.lerr = NoErr =>
              /\ last.args.called
              /\ last.args.base = templateConfig
              /\ Len(last.args.files) = Len(last.partials) + Len(last.files)
              /\ SubSeq(last.args.files, 1, Len(last.partials)) = last.partials
              /\ SubSeq(last.args.files, Len(last.partials) + 1, Len(last.args.files))
                     = last.files
              /\ (~last.hit =>
                     /\ Len(last.files) = 1
                     /\ last.files[1].Name = last.req.name)
              /\ last.tmplt = CreateTemplate(templateConfig, last.args.files).tmplt

\* C8 witness: a standalone page with a partial was composed from the files
C8_Witness ==
    /\ last.req.op = "Standalone"
    /\ ~last.hit
    /\ last.partials # <<>>
    /\ last.args.called
    /\ last.err = NoErr
    /\ last.args.files[Len(last.args.files)].Name = last.req.name

\* C9: the list the layouted path composes from the files is the partials,
\* then the layout fragment, then the wrapped page fragment; and when the
\* template is made, the section "content" is the page's source, not the
\* layout's default.
C9_LayoutBeforePage ==
    (last.req.op = "InLayout" /\ ~last.hit /\ last.lerr = NoErr) =>
        LET n == Len(last.partials)
            fs == last.args.files
        IN  /\ last.args.called
            /\ Len(fs) = n + 2
            /\ SubSeq(fs, 1, n) = last.partials
            /\ fs[n + 1].Name = last.req.layout
            /\ fs[n + 2].Name = last.req.name
            /\ Head(fs[n + 2].Content) = DefineContent
            /\ (~last.tmplt.nil =>
                   /\ ContentName \in DOMAIN last.tmplt.defs
                   /\ WrapInContent(last.tmplt.defs[ContentName]) = fs[n + 2].Content)

\* C9 witness: a page was composed into a layout that declares a default
\* "content", with a partial
C9_Witness ==
    /\ last.req.op = "InLayout"
    /\ ~last.hit
    /\ last.err = NoErr
    /\ last.partials # <<>>
    /\ last.req.layout # last.req.name
    /\ last.args.files[Len(last.partials) + 1].Content = LayoutSrc
    /\ last.tmplt.defs[ContentName] = Body

\* C10: what the underlying loader reads for a layouted call is the page
\* under its own name with its source wrapped into a "content" definition and
\* the layout under the layout name with its source as it is; for a
\* standalone call it is the one fragment {name, source}.
C10_TemplateByNameLoaderResult ==
    [][\A p \in Callers :
          LET r == call[p].req
              got == call'[p].loaded
          IN  (LoadStep(p) /\ call'[p].pc = "store") =>
                 IF r.op = "InLayout"
                 THEN /\ Len(got) = 2
                      /\ \E i \in 1..2 :
                            got[i] = FileWithContent(r.layout, fsys[r.layout])
                      /\ \E i \in 1..2 :
                            got[i] = FileWithContent(r.name,
                                <<DefineContent>> \o fsys[r.name] \o <<EndTok>>)
                 ELSE got = <<FileWithContent(r.name, fsys[r.name])>>]_vars

\* C10 witness: a layouted load of a page and a different layout is about to
\* be stored
C10_Witness ==
    \E p \in Callers :
        /\ call[p].pc = "store"
        /\ call[p].req.op = "InLayout"
        /\ call[p].req.layout # call[p].req.name
        /\ Len(call[p].loaded) = 2

\* what a fragment, parsed alone, defines: whether it parses, and the body it
\* gives a name
Parseable(f) == ParseSource(f.Name, f.Content).ok
Defines(f, n) == n \in DOMAIN ParseSource(f.Name, f.Content).trees
DefinesFor(f, n) == ParseSource(f.Name, f.Content).trees[n]
AllParseable(files) == \A i \in 1..Len(files) : Parseable(files[i])
MaxOf(S) == CHOOSE i \in S : \A j \in S : j <= i
MinOf(S) == CHOOSE i \in S : \A j \in S : i <= j

C12_BaseNeverMutated ==
    /\ heap[BaseId] = BaseTemplate
    /\ \A a \in Callers :
          /\ asm[a].unit # BaseId
          /\ (asm[a].pc = "done" /\ asm[a].err = NoErr) =>
                 /\ asm[a].unit = a
                 /\ heap[a] = CreateTemplate(BaseTemplate, asm[a].given).tmplt
          /\ (asm[a].pc = "done" /\ asm[a].err # NoErr) => asm[a].unit = NoUnit

\* C12 witness: while one assembly is between two fragments, another one
\* from the same base has returned a unit made of other fragments
C12_Witness ==
    \E a, b \in Callers :
        /\ a # b
        /\ asm[a].pc = "parse"
        /\ Len(asm[a].files) = 1
        /\ Len(asm[a].given) = 2
        /\ asm[b].pc = "done"
        /\ asm[b].err = NoErr
        /\ asm[b].given # <<>>
        /\ asm[b].given # asm[a].given
        /\ heap[a] # heap[b]

\* C13: when a fragment does not parse, CreateTemplate returns an error that
\* names the first fragment of the list that does not parse, and returns no
\* template, whatever was parsed before that fragment.
C13_ParseFailureReturnsNothing ==
    (created.called /\ ~AllParseable(created.files)) =>
        LET k == MinOf({i \in 1..Len(created.files) : ~Parseable(created.files[i])})
        IN  /\ created.err = <<"failed to parse template", "template", created.files[k].Name>>
            /\ created.tmplt = NilTemplate

\* C13 witness: the second fragment of a list did not parse, after a first
\* one of another name that did
C13_Witness ==
    /\ created.called
    /\ created.err # NoErr
    /\ Len(created.files) = 2
    /\ Parseable(created.files[1])
    /\ created.files[1].Content # SrcEmpty
    /\ ~Parseable(created.files[2])
    /\ created.files[1].Name # created.files[2].Name

\* C14: when the loader fails, Render and RenderInLayout return the loader's
\* error as it is, execute no entry point and write nothing; when the page
\* file does not exist, the error ends with the failed open of that page:
\* "failed to read template: open <name>: file does not exist".
C14_LoaderErrorReturnedUnchanged ==
    /\ (rendered.op # "none" /\ rendered.loader.err # NoErr) =>
           /\ rendered.err = rendered.loader.err
           /\ rendered.executed = NoEntry
           /\ rendered.written = <<>>
           /\ ~FileExists(fsys, rendered.name) =>
                 LET e == rendered.err
                 IN  /\ Len(e) >= 4
                     /\ e[Len(e)] = "file does not exist"
                     /\ e[Len(e) - 1] = rendered.name
                     /\ e[Len(e) - 2] = "open"
                     /\ e[Len(e) - 3] = "failed to read template"
    /\ (rendered.op # "none" /\ ~FileExists(fsys, rendered.name)) =>
           rendered.loader.err # NoErr

\* C14 witness: a page that does not exist was rendered in a layout that
\* exists
C14_Witness ==
    /\ rendered.op = "RenderInLayout"
    /\ ~FileExists(fsys, rendered.name)
    /\ FileExists(fsys, rendered.layout)
    /\ rendered.err # NoErr
    /\ rendered.written = <<>>

\* C15: Render asks the loader for Standalone(name) and executes the entry
\* point name; RenderInLayout asks for InLayout(name, layout), the page as
\* page and the layout as layout, and executes the entry point layout, so
\* that what is written is the layout with the page in its "content".
C15_RenderExecutesEntryPoint ==
    /\ (rendered.op = "Render") =>
           /\ rendered.loader.req.op = "Standalone"
           /\ rendered.loader.req.name = rendered.name
           /\ rendered.loader.err = NoErr =>
                 /\ rendered.executed = rendered.name
                 /\ rendered.err = ExecuteTemplate(rendered.loader.tmplt, rendered.name).err
                 /\ rendered.written =
                        ExecuteTemplate(rendered.loader.tmplt, rendered.name).written
    /\ (rendered.op = "RenderInLayout") =>
           /\ rendered.loader.req.op = "InLayout"
           /\ rendered.loader.req.name = rendered.name
           /\ rendered.loader.req.layout = rendered.layout
           /\ rendered.loader.err = NoErr =>
                 /\ rendered.executed = rendered.layout
                 /\ rendered.err = ExecuteTemplate(rendered.loader.tmplt, rendered.layout).err
                 /\ rendered.written =
                        ExecuteTemplate(rendered.loader.tmplt, rendered.layout).written
                 /\ (fsys[rendered.layout] = LayoutSrc /\ fsys[rendered.name] = Body) =>
                        rendered.written = <<"HEAD", "body", "FOOT">>

\* C15 witness: a page was rendered in a layout of another name and the
\* layout was written around the page
C15_Witness ==
    /\ rendered.op = "RenderInLayout"
    /\ rendered.name = PageA
    /\ rendered.layout = PagePipe
    /\ rendered.err = NoErr
    /\ rendered.executed = PagePipe
    /\ rendered.written = <<"HEAD", "body", "FOOT">>

\* the names of the files of a list
NamesOf(files) == {files[i].Name : i \in 1..Len(files)}
\* the files that lie below a folder, at any depth
Below(fs, dir) == {q \in DOMAIN fs : fs[q] # NoFile /\ HasPrefix(q, dir \o <<"/">>)}
\* the last element of a path has a dot in it
LastElementHasDot(name) ==
    \E i \in 1..Len(name) :
        /\ name[i] = "."
        /\ \A j \in i..Len(name) : name[j] # "/"

\* C16: the folder both resolvers walk for a page is the page name without
\* its last extension and nothing more: what is cut off is empty when the
\* last element has no dot, and else begins at a dot and holds no other dot
\* and no slash; "t.a.b" resolves to "t.a" and gets the files of "t.a", not
\* those of "t", and "t.a" resolves to "t".
C16_OnlyLastExtensionRemoved ==
    (resolved.resolver # "none") =>
        LET cut == SubSeq(resolved.name, Len(resolved.dir) + 1, Len(resolved.name))
        IN  /\ HasPrefix(resolved.name, resolved.dir)
            /\ IF LastElementHasDot(resolved.name)
               THEN /\ cut # <<>>
                    /\ cut[1] = "."
                    /\ \A i \in 2..Len(cut) : cut[i] \notin {".", "/"}
               ELSE cut = <<>>
            /\ (resolved.name = PageTAB) =>
                   /\ resolved.dir = <<"t", ".", "a">>
                   /\ FileTX \notin NamesOf(resolved.files)
                   /\ (resolved.err = NoErr /\ fsys[FileTAX] # NoFile) =>
                          FileTAX \in NamesOf(resolved.files)
            /\ (resolved.name = PageTA) =>
                   /\ resolved.dir = <<"t">>
                   /\ FileTAX \notin NamesOf(resolved.files)
                   /\ (resolved.err = NoErr /\ fsys[FileTSY] # NoFile) =>
                          FileTSY \in NamesOf(resolved.files)

\* C16 witness: the partials of "t.a.b" were collected from "t.a" while "t"
\* holds a file too
C16_Witness ==
    /\ resolved.name = PageTAB
    /\ resolved.err = NoErr
    /\ fsys[FileTX] = PartSrc
    /\ FileTAX \in NamesOf(resolved.files)

\* C17: PartialsInFolderOnly.Load returns the files below the page's folder,
\* each once under its path with its content, and no other file: not the
\* page itself, not a file beside the page, not a file of another folder.
C17_ExactlyFolderFiles ==
    (resolved.resolver = "FolderOnly" /\ resolved.err = NoErr) =>
        /\ NamesOf(resolved.files) = Below(fsys, resolved.dir)
        /\ Len(resolved.files) = Cardinality(Below(fsys, resolved.dir))
        /\ resolved.name \notin NamesOf(resolved.files)
        /\ \A i \in 1..Len(resolved.files) :
              resolved.files[i].Content = fsys[resolved.files[i].Name]

\* C18: in both resolvers, when nothing exists at a folder that is walked the
\* walk adds nothing and is no error; when a walk meets a file that cannot be
\* read or a folder that cannot be listed, Load returns that error (the
\* first one met) and no fragment.
C18_OnlyMissingFolderIsNoError ==
    (resolved.resolver # "none") =>
        LET own == Under(fsys, resolved.dir)
            common == IF resolved.resolver = "WithCommon"
                      THEN Under(fsys, CommonDir) ELSE {}
            bad(S) == {q \in S : fsys[q] \in {Denied, DeniedDir}}
        IN  /\ (bad(own) \cup bad(common) = {}) => resolved.err = NoErr
            /\ (own \cup common = {}) => (resolved.err = NoErr /\ resolved.files = <<>>)
            /\ (bad(own) \cup bad(common) # {}) =>
                   /\ resolved.files = <<>>
                   /\ \E q \in IF bad(own) # {} THEN bad(own) ELSE bad(common) :
                         /\ resolved.err = <<"open", q, "permission denied">>
                         /\ \A r \in IF bad(own) # {} THEN bad(own) ELSE bad(common) :
                               r = q \/ WalkBefore(q, r)

\* C18 witness: the page's folder gave a fragment and the common folder
\* holds a file that cannot be read
C18_Witness ==
    /\ resolved.resolver = "WithCommon"
    /\ resolved.name = PageTA
    /\ fsys[FileTSY] = PartSrc
    /\ fsys[FileTX] # Denied
    /\ fsys[DirTD] = NoFile
    /\ fsys[FileCZ] = Denied
    /\ resolved.err # NoErr
    /\ resolved.files = <<>>

\* C19: PartialsWithCommon.Load returns what PartialsInFolderOnly.Load
\* returns for the page, followed by the files of CommonDir: as many
\* fragments as the two walks visit together, and a file both walks visit
\* twice.
C19_FolderThenCommonNoDedup ==
    (resolved.resolver = "WithCommon" /\ resolved.err = NoErr) =>
        LET n == Cardinality(Under(fsys, resolved.dir))
            m == Cardinality(Under(fsys, CommonDir))
        IN  /\ Len(resolved.files) = n + m
            /\ SubSeq(resolved.files, 1, n) =
                   PartialsInFolderOnly_Load(fsys, resolved.name).files
            /\ NamesOf(SubSeq(resolved.files, n + 1, n + m)) = Under(fsys, CommonDir)
            /\ (resolved.name = PageCA /\ fsys[FileCZ] = PartSrc) =>
                   resolved.files = <<FileWithContent(FileCZ, PartSrc),
                                      FileWithContent(FileCZ, PartSrc)>>

\* C19 witness: the page's folder is the common folder and its file was
\* returned twice
C19_Witness ==
    /\ resolved.resolver = "WithCommon"
    /\ resolved.name = PageCA
    /\ resolved.err = NoErr
    /\ Len(resolved.files) = 2
    /\ resolved.files[1] = resolved.files[2]

\* C20: a unit built for a page with the default policies holds the partials
\* that lie in the page's own directory: when "_s.t" lies beside "a.t", the
\* unit of "a.t" defines "_s.t", and a page that refers to it renders with
\* the partial's text in place of the reference.
C20_SameDirectoryPartialsCollected ==
    (/\ rendered.op = "Render"
     /\ rendered.name = PageA
     /\ rendered.loader.err = NoErr
     /\ fsys[SiblingA] # NoFile) =>
        /\ SiblingA \in DOMAIN rendered.loader.tmplt.defs
        /\ (fsys[PageA] = BodyWithSibling) =>
               /\ rendered.err = NoErr
               /\ rendered.written = <<"body", "sibling">>

\* C21: a page that refers to a partial in the folder named after it loads
\* and renders with the partial's text in place of the reference; a page
\* that refers to a partial in another folder still loads without error (the
\* unit is made and defines the page), and the failure is the engine's
\* "no such template" at execution, with nothing written.
C21_PartialScopeAtExecution ==
    (rendered.op = "Render" /\ rendered.name = PageA) =>
        /\ (fsys[PageA] = BodyWithPartial /\ fsys[PartialA] = PartSrc) =>
               /\ rendered.loader.err = NoErr
               /\ rendered.err = NoErr
               /\ rendered.written = <<"body", "part">>
        /\ (fsys[PageA] = BodyWithOther) =>
               /\ rendered.loader.err = NoErr
               /\ ~rendered.loader.tmplt.nil
               /\ PageA \in DOMAIN rendered.loader.tmplt.defs
               /\ OtherPartial \notin DOMAIN rendered.loader.tmplt.defs
               /\ rendered.executed = PageA
               /\ rendered.err = <<"no such template", OtherPartial>>
               /\ rendered.written = <<>>

\* C21 witness: the partial exists in another folder, the page that refers
\* to it was loaded and its execution failed
C21_Witness ==
    /\ rendered.op = "Render"
    /\ rendered.name = PageA
    /\ fsys[PageA] = BodyWithOther
    /\ fsys[OtherPartial] = OtherSrc
    /\ rendered.loader.err = NoErr
    /\ rendered.err = <<"no such template", OtherPartial>>

\* a call began and returned in its first step, without reaching the
\* template loader
ReturnedAtResolver == ncalls' # ncalls /\ call' = call

\* C22: a Loader call runs the resolver, then the template loader, then
\* CreateTemplate, and stops at the first stage that fails: when the resolver
\* fails the call returns without the template loader or CreateTemplate
\* being invoked; the template loader is invoked only by a call that holds
\* the resolver's partials; when the template loader fails the call returns
\* without CreateTemplate being invoked; CreateTemplate is invoked only with
\* what both stages returned.
C22_StagesInOrder ==
    [][/\ (ncalls' # ncalls) =>
              \/ /\ ReturnedAtResolver
                 /\ PartialsFor(fsys, last'.req.name).err # NoErr
                 /\ last'.err # NoErr
                 /\ last'.lerr = NoErr
                 /\ ~last'.hit
                 /\ ~last'.args.called
                 /\ last'.tmplt = NilTemplate
                 /\ loads' = loads
                 /\ data' = data
              \/ \E p \in Callers :
                    /\ call[p].pc = "idle"
                    /\ call'[p].pc = "lookup"
                    /\ PartialsFor(fsys, call'[p].req.name).err = NoErr
                    /\ call'[p].partials = PartialsFor(fsys, call'[p].req.name).files
                    /\ loads' = loads
                    /\ last' = last
       /\ \A p \in Callers :
              /\ (LookupStep(p) \/ LoadStep(p)) =>
                     /\ call[p].partialsFor = call[p].req.name
                     /\ PartialsFor(fsys, call[p].req.name).err = NoErr
              /\ (LoadStep(p) /\ Underlying(fsys, call[p].req).err # NoErr) =>
                     /\ Returned(p)
                     /\ last'.req = call[p].req
                     /\ last'.lerr = Underlying(fsys, call[p].req).err
                     /\ last'.err # NoErr
                     /\ ~last'.args.called
                     /\ last'.tmplt = NilTemplate
              /\ (Returned(p) /\ last'.args.called) =>
                     /\ call[p].pc \in {"lookup", "store"}
                     /\ last'.lerr = NoErr
                     /\ last'.partials = call[p].partials
                     /\ last'.args.files = call[p].partials \o last'.files]_vars

\* C22 witness: a call whose resolver failed has returned, after another call
\* went through all three stages
C22_Witness ==
    /\ last.err # NoErr
    /\ last.req # NoRequest
    /\ PartialsFor(fsys, last.req.name).err # NoErr
    /\ \E k \in Keys : loads[k] > 0

\* the failure of the first stage that failed in a returned call, NoErr when
\* none did
FirstFailure(ret) ==
    IF PartialsFor(fsys, ret.req.name).err # NoErr
    THEN PartialsFor(fsys, ret.req.name).err
    ELSE IF ret.lerr # NoErr THEN ret.lerr
    ELSE CreateTemplate(ret.args.base, ret.args.files).err

RECURSIVE SumOver(_, _)
SumOver(f, S) ==
    IF S = {} THEN 0
    ELSE LET k == CHOOSE x \in S : TRUE IN f[k] + SumOver(f, S \ {k})

\* C23: a Loader call returns an error exactly when one of its stages
\* failed; it then returns no template, and the error is the cause preceded
\* by a message that names the page and, when the template loader or
\* CreateTemplate failed in InLayout, the layout too; the template loader is
\* invoked at most once per call.
C23_FailuresWrappedAndReturned ==
    /\ SumOver(loads, Keys) <= ncalls
    /\ (last.req # NoRequest) =>
           LET cause == FirstFailure(last)
               context == SubSeq(last.err, 1, Len(last.err) - Len(cause))
               atResolver == PartialsFor(fsys, last.req.name).err # NoErr
           IN  /\ (last.err # NoErr) <=> (cause # NoErr)
               /\ (last.err = NoErr) => ~last.tmplt.nil
               /\ (last.err # NoErr) =>
                      /\ last.tmplt = NilTemplate
                      /\ HasSuffix(last.err, cause)
                      /\ Len(context) >= 2
                      /\ context[2] = last.req.name
                      /\ (last.req.op = "InLayout" /\ ~atResolver) =>
                             /\ Len(context) = 4
                             /\ context[4] = last.req.layout

\* C23 witness: InLayout returned the failure of CreateTemplate, for a page
\* and a layout of different names
C23_Witness ==
    /\ last.req.op = "InLayout"
    /\ last.req.name # last.req.layout
    /\ last.args.called
    /\ last.err # NoErr
    /\ last.lerr = NoErr

\* C24: TemplateByNameLoader.InLayout reads the page first: when the page
\* cannot be read, what it returns is the page's read failure ("failed to
\* read template", also when the layout cannot be read either) and no list;
\* when the page can be read and the layout cannot, it returns the layout's
\* read failure ("failed to read layout template") and no list, and nothing
\* is kept of the page that was read.
C24_PageReadBeforeLayout ==
    [][\A p \in Callers :
          LET r == call[p].req
              page == ReadFile(fsys, r.name)
              layout == ReadFile(fsys, r.layout)
          IN  (LoadStep(p) /\ r.op = "InLayout") =>
                 /\ (page.err # NoErr) =>
                        /\ Returned(p)
                        /\ last'.lerr = <<"failed to read template">> \o page.err
                        /\ last'.lerr = <<"failed to read template", "open", r.name>>
                                            \o ErrNotExist
                        /\ last'.files = <<>>
                        /\ data' = data
                 /\ (page.err = NoErr /\ layout.err # NoErr) =>
                        /\ Returned(p)
                        /\ last'.lerr = <<"failed to read layout template">> \o layout.err
                        /\ last'.lerr = <<"failed to read layout template", "open", r.layout>>
                                            \o ErrNotExist
                        /\ last'.files = <<>>
                        /\ data' = data
                        /\ produced' = produced]_vars

\* C24 witness: neither the page nor the layout, of another name, is there,
\* and the failure returned is the page's
C24_Witness ==
    /\ last.req.op = "InLayout"
    /\ last.req.name # last.req.layout
    /\ fsys[last.req.name] = NoFile
    /\ fsys[last.req.layout] = NoFile
    /\ last.lerr = <<"failed to read template", "open", last.req.name>> \o ErrNotExist

\* C25: in every interleaving, a call whose lookup finds the key stored
\* returns the stored list and does not invoke the underlying loader; the
\* underlying loader is invoked only by a call whose own lookup found no
\* entry for the key, so that loads of one key are repeated only by calls
\* that looked up before the first store for it; and once no call for a key
\* is in flight any more and a load of it has succeeded, the cache holds one
\* value for the key, the result of one of those loads.
C25_DuplicateLoadsOnlyBeforeFirstStore ==
    [][/\ \A p \in Callers :
              LET k == KeyOfCall(p)
              IN  /\ (LookupStep(p) /\ k \in DOMAIN data) =>
                         /\ Returned(p)
                         /\ last'.hit
                         /\ last'.files = data[k]
                         /\ loads' = loads
                  /\ (call[p].pc # "load" /\ call'[p].pc = "load") =>
                         /\ LookupStep(p)
                         /\ k \notin DOMAIN data
       /\ \A k \in Keys :
              /\ (loads'[k] # loads[k]) =>
                     /\ loads'[k] = loads[k] + 1
                     /\ \E p \in Callers : call[p].pc = "load" /\ KeyOfCall(p) = k
              /\ (/\ produced'[k] # {}
                  /\ \A p \in Callers :
                         call'[p].pc = "idle" \/ KeyOf(call'[p].req) # k) =>
                     /\ k \in DOMAIN data'
                     /\ data'[k] \in produced'[k]]_vars

\* C25 witness: two calls missed the same key and both loaded it; both have
\* stored, and a later call was answered from the cache
C25_Witness ==
    /\ last.hit
    /\ loads[KeyOf(last.req)] = 2
    /\ Cardinality(produced[KeyOf(last.req)]) = 2
    /\ KeyOf(last.req) \in DOMAIN data
    /\ \A p \in Callers : call[p].pc = "idle"

\* C26: a standalone call is never answered with an entry that a layouted
\* call stored, and a layouted call never with an entry that a standalone
\* call stored.
C26_StandaloneAndLayoutKeysDisjoint ==
    [][\A p \in Callers :
          LET k == KeyOfCall(p)
          IN  (LookupStep(p) /\ k \in DOMAIN data) => storedBy[k].op = call[p].req.op]_vars

\* C27: in the unit InLayout(name, layout) makes, the fragment after the
\* partials is the layout file under the layout's name, and the entry point
\* layout is bound to what that fragment's source gives it, whatever the
\* names of the page, the layout and the partials are.
C27_LayoutEntryIsLayoutSource ==
    (rendered.op = "RenderInLayout" /\ rendered.loader.err = NoErr) =>
        LET files == rendered.loader.args.files
            n == Len(rendered.loader.partials)
            defs == rendered.loader.tmplt.defs
        IN  /\ Len(files) = n + 2
            /\ files[n + 1] = FileWithContent(rendered.layout, fsys[rendered.layout])
            /\ rendered.layout \in DOMAIN defs
            /\ defs[rendered.layout] = DefinesFor(files[n + 1], rendered.layout)

\* C28: in the unit Standalone(name) makes with the default policies, the
\* last fragment parsed is the page file under its name, and the entry point
\* name is bound to what the page's source gives it, also when the resolver
\* returned a fragment of that name (a page without extension is its own
\* partial folder).
C28_PageEntryIsPageSource ==
    (rendered.op = "Render" /\ rendered.loader.err = NoErr) =>
        LET files == rendered.loader.args.files
            page == FileWithContent(rendered.name, fsys[rendered.name])
            defs == rendered.loader.tmplt.defs
        IN  /\ files # <<>>
            /\ files[Len(files)] = page
            /\ rendered.name \in DOMAIN defs
            /\ defs[rendered.name] = DefinesFor(page, rendered.name)
            /\ rendered.executed = rendered.name

\* C28 witness: the page has no extension, the resolver returned the page
\* file itself as a partial, and the unit was made of the two
C28_Witness ==
    /\ rendered.op = "Render"
    /\ rendered.name = PageP
    /\ rendered.loader.err = NoErr
    /\ Len(rendered.loader.partials) = 1
    /\ rendered.loader.partials[1].Name = PageP
    /\ Len(rendered.loader.args.files) = 2
    /\ rendered.loader.tmplt.defs[PageP] = Body
    /\ rendered.written = Body

\* the page source inside a fragment that wraps it once in a definition of
\* "content"
Unwrapped(c) == SubSeq(c, 2, Len(c) - 1)

\* C29: on a call answered from the cache, what is handed to CreateTemplate
\* is the partials followed by the list as the first call for the key loaded
\* it: for a layouted call the layout fragment and the page fragment, the
\* page's source wrapped in one definition of "content" and no more; for a
\* standalone call the page fragment with the source as it is.
C29_CachedListHandedUnchanged ==
    (last.hit /\ last.lerr = NoErr) =>
        LET k == KeyOf(last.req)
            n == Len(last.partials)
            loaded == SubSeq(last.args.files, n + 1, Len(last.args.files))
        IN  /\ loaded = last.files
            /\ loaded \in produced[k]
            /\ (last.req.op = "InLayout") =>
                   /\ Len(loaded) = 2
                   /\ loaded[1].Name = last.req.layout
                   /\ loaded[1].Content \in SourcesOf(last.req.layout)
                   /\ loaded[2].Name = last.req.name
                   /\ loaded[2].Content = WrapInContent(Unwrapped(loaded[2].Content))
                   /\ Unwrapped(loaded[2].Content) \in SourcesOf(last.req.name)
            /\ (last.req.op = "Standalone") =>
                   /\ Len(loaded) = 1
                   /\ loaded[1].Name = last.req.name
                   /\ loaded[1].Content \in SourcesOf(last.req.name)

\* C30: with files that do not change, every call of the template loader
\* through the cache returns what the underlying loader alone returns for
\* the same arguments: the same error, or the same list.
C30_CacheTransparent ==
    (last.req # NoRequest /\ PartialsFor(fsys, last.req.name).err = NoErr) =>
        LET alone == Underlying(fsys, last.req)
        IN  /\ last.lerr = alone.err
            /\ (alone.err = NoErr) => last.files = alone.files

====
